---- MODULE Spec2Model ----
(***************************************************************************)
(* Distributed training orchestration of train_autoencoder.py: the role    *)
(* dispatch of main(), Trainer.__init__ / Trainer.run (directory removal,  *)
(* server start, checkpoint lookup, graph build or recovery, supervisor    *)
(* session, training loop, parameter export) and ParameterServer.run.      *)
(*                                                                         *)
(* One process per cluster task.  The processes share the training         *)
(* directory; each has its own input pipeline over the same dataset.       *)
(***************************************************************************)
EXTENDS Integers, Sequences, FiniteSets, TLC

(* ------------------------------------------------------------------ *)
(* Bounds and value domains                                            *)
(* ------------------------------------------------------------------ *)

\* Largest number of batches the dataset yields to one input pipeline.
MaxBatches == 2

\* Largest number of examples in the files the glob matches.
MaxExamples == 6

\* Largest FLAGS.batch_size.
MaxBatchSize == 3

\* Largest FLAGS.num_epochs.
MaxEpochs == 2

\* Largest number of examples one read of a reader returns.
MaxRead == 2

\* Largest number of modules validate_class_name is given.
MaxModules == 3

\* Largest global step of the first steps of a run.
MaxStep == 8

\* The default of FLAGS.batch_size.
DefaultBatchSize == 1024

\* The default of FLAGS.learning_rate_decay_examples.
DefaultDecayExamples == 4000000

\* The readers of the input pipeline (FLAGS.num_readers of them).
Readers == {"r1", "r2"}

\* The processes of a run.
Procs == {"p1", "p2"}

\* Python's None, for a task type or a meta filename.
NoneVal == "None"

\* task.index is None (an index is otherwise a non-negative integer).
NoIndex == -1

TaskTypes == {"master", "worker", "ps", "evaluator", NoneVal}

TaskIndexes == {NoIndex, 0, 1}

TaskSpecs == [type : TaskTypes, index : TaskIndexes]

\* main(): the task of a process whose TF_CONFIG names none.
DefaultTask == [type |-> "master", index |-> 0]

\* The names of the files np.savetxt may write: autoencoder_layer<i>.model.
LayerIds == 0 .. 3

\* The training directory: whether it exists, the latest-checkpoint pointer
\* with its data, the latest checkpoint's ".meta" graph snapshot, the
\* monitoring event files, and the exported parameter artifacts.
AbsentDir ==
    [exists |-> FALSE, checkpoint |-> FALSE, meta |-> FALSE,
     events |-> FALSE, layers |-> {}]

EmptyDir == [AbsentDir EXCEPT !.exists = TRUE]

\* The contents a directory can be left with when a recursive deletion of
\* dir stops half way: the directory itself and any part of its contents.
Remainders(dir) ==
    { d \in [exists : {TRUE}, checkpoint : BOOLEAN, meta : BOOLEAN,
             events : BOOLEAN, layers : SUBSET dir.layers] :
        /\ d.checkpoint => dir.checkpoint
        /\ d.meta => dir.meta
        /\ d.events => dir.events }

\* The keys build_graph registers, in the order it registers them.
HandleKeys ==
    <<"global_step", "loss", "reg_loss", "bottleneck", "predictions",
      "input_batch_raw", "num_frames", "labels", "train_op", "parameters">>

\* A value put into a collection: one graph tensor (or op) ...
Tensor(name) == [kind |-> "tensor", name |-> name, items |-> <<>>]

\* ... or one Python list of tensors.
TensorList(names) == [kind |-> "list", name |-> "", items |-> names]

\* get_forward_parameters: the list [vars_1, vars_2, vars_3, vars_4].
get_forward_parameters ==
    TensorList(<<"vars_1", "vars_2", "vars_3", "vars_4">>)

\* A graph with nothing registered.
NoGraph == [k \in {HandleKeys[i] : i \in 1 .. Len(HandleKeys)} |-> <<>>]

\* tf.add_to_collection(key, value): value is appended as ONE item of the
\* collection named key, whatever value is (a tensor or a Python list).
add_to_collection(g, key, value) ==
    [g EXCEPT ![key] = Append(@, value)]

\* build_graph, lines 329-338: every handle is registered once; the handle
\* "parameters" is given the whole list of the four forward parameters.
RECURSIVE RegisterHandles(_, _)
RegisterHandles(g, i) ==
    IF i > Len(HandleKeys) THEN g
    ELSE RegisterHandles(
             add_to_collection(g, HandleKeys[i],
                 IF HandleKeys[i] = "parameters"
                 THEN get_forward_parameters
                 ELSE Tensor(HandleKeys[i])),
             i + 1)

\* tf.train.import_meta_graph: the collections of the snapshot of a graph
\* that build_graph built.  A snapshot keeps the collections whose items are
\* graph nodes; the item of "parameters" is a Python list, which the snapshot
\* writer cannot store, so that collection comes back empty.
import_meta_graph ==
    [RegisterHandles(NoGraph, 1) EXCEPT !["parameters"] = <<>>]

\* The handles Trainer.run reads with tf.get_collection(key)[0].
FirstItemReads ==
    {"global_step", "loss", "reg_loss", "predictions", "labels", "train_op"}

\* No server was started.
NoServer == [job_name |-> NoneVal, task_index |-> NoIndex]

\* The device function before start_server_if_distributed has returned.
UnsetDeviceFn == [ps_device |-> "unset", job |-> "unset", task |-> NoIndex]

\* start_server_if_distributed, line 469: device_fn = "".
NoDeviceFn == [ps_device |-> "", job |-> "", task |-> NoIndex]

\* The pluggable components build_model looks up by name (lines 529-532).
Components == {"model", "label_loss", "optimizer"}

\* What the module holds under a configured name: a class of the expected
\* family, nothing, or something else (a class of another family, a
\* function, an imported module).
NameKinds == {"class", "missing", "other"}

ConformingNames == [c \in Components |-> "class"]

\* All names conform, or one of them does not.
NameConfigs ==
    {ConformingNames}
        \cup {[ConformingNames EXCEPT ![c] = k] :
                 c \in Components, k \in NameKinds \ {"class"}}

\* How an object that is not of the expected family behaves where
\* build_model and build_graph use it: it cannot be called, it lacks the
\* method that is called on it, or it happens to work.
Uses == {"not_callable", "no_such_method", "works"}

\* Mutant of Capacity: room for one batch more.
Capacity_SixBatches(batch_size) == batch_size * 6

\* get_input_data_tensors, lines 169-175: the arguments of
\* tf.train.shuffle_batch_join.
Capacity(batch_size) == batch_size * 5

MinAfterDequeue(batch_size) == batch_size

\* Mutant of allow_smaller_final_batch: what is left of the last batch is
\* dropped.
allow_smaller_final_batch_Off == FALSE

allow_smaller_final_batch == TRUE

\* The input pipeline over num_examples examples read num_epochs times:
\* the examples not yet read from the files, those each reader holds in an
\* unfinished enqueue, the readers that met the end of the filename queue,
\* the shuffle queue (closed, size), the examples the consumer's dequeue has
\* collected, those handed to the consumer and the size of the last batch.
Pipeline(n, b, e) ==
    [num_examples |-> n, batch_size |-> b, num_epochs |-> e,
     unread |-> n * e,
     pending |-> [r \in Readers |-> 0],
     finished |-> {},
     closed |-> FALSE,
     size |-> 0,
     taken |-> 0,
     handed |-> 0,
     last |-> 0]

\* The pipeline is not looked into.
NoInput == Pipeline(0, 1, 1)

\* No function is called on its own.
NoCall == [fn |-> "none"]

\* The call has not returned yet.
NoResult == [status |-> "pending"]

CallNames ==
    {"remove_training_directory", "start_server_if_distributed",
     "start_server", "latest_checkpoint",
     "Graph", "recover_model", "build_model", "build_graph",
     "get_input_data_tensors", "create_model"}

VARIABLES
    cluster,          \* main: a cluster spec is present in TF_CONFIG
    start_new_model,  \* FLAGS.start_new_model of each process
    dataset,          \* [files, batches]: the glob matches; batches it yields
    task,             \* the TaskSpec of each process
    FLAGS,            \* what FLAGS.model, label_loss and optimizer name
    train_input,      \* the input pipeline of p1, example by example
    call,             \* a function called on its own, with its arguments
    result,           \* what that call returned or raised
    pc,               \* where each process is
    is_master,        \* Trainer.is_master
    target,           \* the session target start_server_if_distributed gave
    server,           \* the server the process started, with its binding
    device_fn,        \* the device function start_server_if_distributed gave
    meta_filename,    \* what get_meta_filename returned ("unset" before)
    graph,            \* the named collections of each process's graph
    calls,            \* how often each process called each function
    steps,            \* completed training steps (successful sess.run)
    metric_events,    \* groups of Hit@1/PERR/GAP/examples-per-second emitted
    stop_requested,   \* sv.should_stop() of each process
    initialized,      \* the variables the process's session sees are ready
    error,            \* the exception that left main() ("none" if none)
    log,              \* the notable messages each process logged
    train_dir,        \* the shared training directory
    written           \* what each process wrote into the training directory

vars ==
    <<cluster, start_new_model, dataset, task, FLAGS, train_input, call,
      result, pc, is_master, target,
      server, device_fn, meta_filename, graph, calls, steps, metric_events,
      stop_requested,
      initialized, error, log, train_dir, written>>

config ==
    <<cluster, start_new_model, dataset, task, FLAGS, train_input, call,
      result>>

(* ------------------------------------------------------------------ *)
(* The initial state: the environment a run is started in              *)
(* ------------------------------------------------------------------ *)

\* The dataset: the glob matches no file, or it matches files that yield
\* 0 .. MaxBatches batches over the configured epochs.
Datasets ==
    {[files |-> FALSE, batches |-> 0]}
        \cup {[files |-> TRUE, batches |-> n] : n \in 0 .. MaxBatches}

\* The training directory a run finds: none, an empty one, one whose latest
\* checkpoint lost its graph snapshot, or one with checkpoint and snapshot
\* (which the Supervisor of an earlier run wrote, with its events).
InitialDirs ==
    {AbsentDir,
     EmptyDir,
     [EmptyDir EXCEPT !.checkpoint = TRUE, !.events = TRUE],
     [EmptyDir EXCEPT !.checkpoint = TRUE, !.meta = TRUE, !.events = TRUE]}

\* The tasks of the second process of a distributed run: a worker, a
\* parameter server, or a second replica of the master.
PeerTasks ==
    {[type |-> "worker", index |-> 0],
     [type |-> "ps", index |-> 0],
     [type |-> "master", index |-> 1]}

\* p1 runs with any TF_CONFIG and starts at the given position.  p2 is
\* absent, or (in a cluster) a peer started through main().
InitAt(start) ==
    /\ cluster \in BOOLEAN
    /\ dataset \in Datasets
    /\ train_dir \in InitialDirs
    /\ \E t1 \in TaskSpecs, s1 \in BOOLEAN :
         \/ /\ task = [p \in Procs |-> IF p = "p1" THEN t1 ELSE DefaultTask]
            /\ start_new_model = [p \in Procs |-> p = "p1" /\ s1]
            /\ pc = [p \in Procs |-> IF p = "p1" THEN start ELSE "absent"]
         \/ /\ cluster
            /\ \E t2 \in PeerTasks, s2 \in BOOLEAN :
                 /\ task = [p \in Procs |-> IF p = "p1" THEN t1 ELSE t2]
                 /\ start_new_model =
                        [p \in Procs |-> IF p = "p1" THEN s1 ELSE s2]
            /\ pc = [p \in Procs |-> IF p = "p1" THEN start ELSE "main"]
    /\ is_master = [p \in Procs |-> FALSE]
    /\ target = [p \in Procs |-> "unset"]
    /\ server = [p \in Procs |-> NoServer]
    /\ device_fn = [p \in Procs |-> UnsetDeviceFn]
    /\ meta_filename = [p \in Procs |-> "unset"]
    /\ graph = [p \in Procs |-> NoGraph]
    /\ calls = [p \in Procs |-> [c \in CallNames |-> 0]]
    /\ steps = [p \in Procs |-> 0]
    /\ metric_events = [p \in Procs |-> 0]
    /\ stop_requested = [p \in Procs |-> FALSE]
    /\ initialized = [p \in Procs |-> FALSE]
    /\ error = [p \in Procs |-> "none"]
    /\ log = [p \in Procs |-> {}]
    /\ written = [p \in Procs |-> {}]

\* Every process is started through main(), lines 603-628, with names that
\* resolve to classes of the expected families.
Init ==
    /\ InitAt("main")
    /\ FLAGS = ConformingNames
    /\ train_input = NoInput
    /\ call = NoCall
    /\ result = NoResult

\* The Trainer of p1 is constructed by a caller that passes it any cluster
\* and task (Trainer.__init__, lines 344-357, checks neither).
InitTrainer ==
    /\ InitAt("Trainer")
    /\ FLAGS = ConformingNames
    /\ train_input = NoInput
    /\ call = NoCall
    /\ result = NoResult

\* One process, started through main() with any names.
InitNames ==
    /\ InitAt("main")
    /\ pc["p2"] = "absent"
    /\ FLAGS \in NameConfigs
    /\ train_input = NoInput
    /\ call = NoCall
    /\ result = NoResult

\* One process of a non-distributed run that builds its graph afresh in an
\* empty training directory, over any small dataset, batch size and number
\* of epochs.
InitInput ==
    /\ InitAt("main")
    /\ ~cluster
    /\ pc["p2"] = "absent"
    /\ task["p1"] = DefaultTask
    /\ ~start_new_model["p1"]
    /\ train_dir = EmptyDir
    /\ dataset = [files |-> TRUE, batches |-> 0]
    /\ FLAGS = ConformingNames
    /\ \E n \in 0 .. MaxExamples, b \in 1 .. MaxBatchSize,
          e \in 1 .. MaxEpochs :
         train_input = Pipeline(n, b, e)
    /\ call = NoCall
    /\ result = NoResult

(* ------------------------------------------------------------------ *)
(* Helpers                                                             *)
(* ------------------------------------------------------------------ *)

\* An exception e leaves main(): the process fails.
Raise(p, e) ==
    /\ pc' = [pc EXCEPT ![p] = "failed"]
    /\ error' = [error EXCEPT ![p] = e]

Goto(p, where) ==
    /\ pc' = [pc EXCEPT ![p] = where]
    /\ UNCHANGED error

Called(p, names) ==
    [calls EXCEPT ![p] = [c \in CallNames |->
                             IF c \in names THEN @[c] + 1 ELSE @[c]]]

(* ------------------------------------------------------------------ *)
(* main(): role dispatch                                               *)
(* ------------------------------------------------------------------ *)

\* Mutant of RunsTrainer: a parameter server is dispatched to the Trainer too.
RunsTrainer_AnyRole(c, t) ==
    ~c \/ t.type = "master" \/ t.type = "worker" \/ t.type = "ps"

\* main, line 621: the process runs a Trainer.
RunsTrainer(c, t) == ~c \/ t.type = "master" \/ t.type = "worker"

\* main, lines 621-628.
Main(p) ==
    /\ pc[p] = "main"
    /\ IF RunsTrainer(cluster, task[p])
       THEN Goto(p, "Trainer")
       ELSE IF task[p].type = "ps"
            THEN Goto(p, "ParameterServer")
            ELSE Raise(p, "ValueError")
    /\ UNCHANGED <<config, is_master, target, server, device_fn,
                   meta_filename, graph, calls, steps, metric_events,
                   stop_requested, initialized, log, train_dir, written>>

\* start_server, lines 593-598: tf.train.Server(..., job_name=task.type,
\* task_index=task.index).
Server(t) == [job_name |-> t.type, task_index |-> t.index]

\* Mutant of start_server: the index is tested like the type ("if not
\* task.index"), which takes index 0 for an unset one.
start_server_FalsyIndex(t) ==
    IF t.type = NoneVal THEN "ValueError"
    ELSE IF t.index = NoIndex \/ t.index = 0 THEN "ValueError"
    ELSE "started"

\* start_server, lines 586-598: "ValueError" when the task type or index is
\* unset, otherwise a server bound to the task is started.
start_server(t) ==
    IF t.type = NoneVal THEN "ValueError"
    ELSE IF t.index = NoIndex THEN "ValueError"
    ELSE "started"

\* ParameterServer.run, lines 568-574: start the server and join it.
ParameterServerRun(p) ==
    /\ pc[p] = "ParameterServer"
    /\ calls' = Called(p, {"start_server"})
    /\ IF start_server(task[p]) = "started"
       THEN /\ Goto(p, "join")
            /\ server' = [server EXCEPT ![p] = Server(task[p])]
            /\ target' = [target EXCEPT ![p] = "grpc"]
       ELSE /\ Raise(p, start_server(task[p]))
            /\ UNCHANGED <<target, server>>
    /\ UNCHANGED <<config, is_master, device_fn, meta_filename, graph, steps,
                   metric_events, stop_requested, initialized, log,
                   train_dir, written>>

(* ------------------------------------------------------------------ *)
(* Trainer.__init__ and the start of Trainer.run                       *)
(* ------------------------------------------------------------------ *)

\* Trainer.__init__, line 355.
IsMaster(t) == t.type = "master" /\ t.index = 0

\* Trainer.__init__, lines 353-361: the replica check reads the is_master it
\* has just computed.
TrainerInit(p) ==
    /\ pc[p] = "Trainer"
    /\ is_master' = [is_master EXCEPT ![p] = IsMaster(task[p])]
    /\ IF IsMaster(task[p]) /\ task[p].index > 0
       THEN Raise(p, "StandardError")
       ELSE Goto(p, "run")
    /\ UNCHANGED <<config, target, server, device_fn, meta_filename, graph,
                   calls, steps, metric_events, stop_requested, initialized,
                   log, train_dir, written>>

\* gfile.DeleteRecursively(train_dir): what it can leave behind, and whether
\* it raised.  A missing directory raises; an existing one is removed, or
\* the deletion fails part way and raises.
DeleteRecursively(dir) ==
    IF ~dir.exists
    THEN {[dir |-> dir, raised |-> TRUE]}
    ELSE {[dir |-> AbsentDir, raised |-> FALSE]}
             \cup {[dir |-> d, raised |-> TRUE] : d \in Remainders(dir)}

\* Mutant of ShouldRemove: the directory is never removed.
ShouldRemove_Never(master, start_new) == FALSE

\* Mutant of ShouldRemove: the master removes the directory on every start.
ShouldRemove_Always(master, start_new) == master

\* Mutant of ShouldRemove: every task removes the directory on a fresh
\* start.
ShouldRemove_AnyTask(master, start_new) == start_new

\* Trainer.run, line 369.
ShouldRemove(master, start_new) == master /\ start_new

\* Trainer.run, lines 369-370, with remove_training_directory, lines
\* 472-483: any exception of the deletion is logged and swallowed.
RemoveTrainingDirectory(p) ==
    /\ pc[p] = "run"
    /\ IF ShouldRemove(is_master[p], start_new_model[p])
       THEN /\ calls' = Called(p, {"remove_training_directory"})
            /\ \E out \in DeleteRecursively(train_dir) :
                 /\ train_dir' = out.dir
                 /\ log' = [log EXCEPT ![p] =
                               IF out.raised
                               THEN @ \cup {"Failed to delete directory"}
                               ELSE @]
       ELSE UNCHANGED <<calls, train_dir, log>>
    /\ Goto(p, "start_server_if_distributed")
    /\ UNCHANGED <<config, is_master, target, server, device_fn,
                   meta_filename, graph, steps, metric_events, stop_requested,
                   initialized, written>>

\* start_server_if_distributed, lines 461-466: replica_device_setter with
\* ps_device "/job:ps" and worker_device "/job:<type>/task:<index>".
replica_device_setter(t) ==
    [ps_device |-> "/job:ps", job |-> t.type, task |-> t.index]

\* Mutant of StartServerIfDistributed: a failed server start is logged and
\* the run goes on.
StartServerIfDistributed_GoesOn(p) ==
    /\ pc[p] = "start_server_if_distributed"
    /\ calls' = Called(p, {"start_server_if_distributed"}
                          \cup (IF cluster THEN {"start_server"} ELSE {}))
    /\ IF cluster /\ start_server(task[p]) = "started"
       THEN /\ server' = [server EXCEPT ![p] = Server(task[p])]
            /\ target' = [target EXCEPT ![p] = "grpc"]
            /\ device_fn' = [device_fn EXCEPT ![p] =
                                replica_device_setter(task[p])]
       ELSE IF cluster
            THEN UNCHANGED <<target, server, device_fn>>
            ELSE /\ target' = [target EXCEPT ![p] = ""]
                 /\ device_fn' = [device_fn EXCEPT ![p] = NoDeviceFn]
                 /\ UNCHANGED server
    /\ Goto(p, "get_meta_filename")
    /\ UNCHANGED <<config, is_master, meta_filename, graph, steps,
                   metric_events, stop_requested, initialized, log,
                   train_dir, written>>

\* Trainer.start_server_if_distributed, lines 455-470.
StartServerIfDistributed(p) ==
    /\ pc[p] = "start_server_if_distributed"
    /\ IF cluster
       THEN /\ calls' = Called(p, {"start_server_if_distributed",
                                   "start_server"})
            /\ IF start_server(task[p]) = "started"
               THEN /\ server' = [server EXCEPT ![p] = Server(task[p])]
                    /\ target' = [target EXCEPT ![p] = "grpc"]
                    /\ device_fn' = [device_fn EXCEPT ![p] =
                                        replica_device_setter(task[p])]
                    /\ Goto(p, "get_meta_filename")
               ELSE /\ Raise(p, start_server(task[p]))
                    /\ UNCHANGED <<target, server, device_fn>>
       ELSE /\ calls' = Called(p, {"start_server_if_distributed"})
            /\ target' = [target EXCEPT ![p] = ""]
            /\ device_fn' = [device_fn EXCEPT ![p] = NoDeviceFn]
            /\ UNCHANGED server
            /\ Goto(p, "get_meta_filename")
    /\ UNCHANGED <<config, is_master, meta_filename, graph, steps,
                   metric_events, stop_requested, initialized, log,
                   train_dir, written>>

\* The name of the latest checkpoint's graph snapshot.
MetaFile == "model.ckpt.meta"

\* Mutant of get_meta_filename: the snapshot file is not checked for.
get_meta_filename_NoMetaCheck(start_new, dir) ==
    IF start_new
    THEN [value |-> NoneVal, lookups |-> 0]
    ELSE IF ~dir.checkpoint
         THEN [value |-> NoneVal, lookups |-> 1]
         ELSE [value |-> MetaFile, lookups |-> 1]

\* Trainer.get_meta_filename, lines 485-503: the value returned and the
\* number of tf.train.latest_checkpoint lookups made.
get_meta_filename(start_new, dir) ==
    IF start_new
    THEN [value |-> NoneVal, lookups |-> 0]
    ELSE IF ~dir.checkpoint
         THEN [value |-> NoneVal, lookups |-> 1]
         ELSE IF ~dir.meta
              THEN [value |-> NoneVal, lookups |-> 1]
              ELSE [value |-> MetaFile, lookups |-> 1]

\* Trainer.run, line 374.
GetMetaFilename(p) ==
    /\ pc[p] = "get_meta_filename"
    /\ LET r == get_meta_filename(start_new_model[p], train_dir)
       IN  /\ meta_filename' = [meta_filename EXCEPT ![p] = r.value]
           /\ calls' = [calls EXCEPT ![p]["latest_checkpoint"] =
                                         @ + r.lookups]
    /\ Goto(p, "graph")
    /\ UNCHANGED <<config, is_master, target, server, device_fn, graph, steps,
                   metric_events, stop_requested, initialized, log, train_dir,
                   written>>

(* ------------------------------------------------------------------ *)
(* Trainer.run: recover or build the graph, read the handles           *)
(* ------------------------------------------------------------------ *)

\* Trainer.run, line 378: "if meta_filename".
ShouldRecover(mf) == mf # NoneVal

\* Mutant of ShouldBuild: the graph is built whatever the decision was.
ShouldBuild_Always(mf) == TRUE

\* Trainer.run, line 383: "if not meta_filename".
ShouldBuild(mf) == mf = NoneVal

\* Mutant of get_input_data_tensors: the glob's result is not looked at.
get_input_data_tensors_Unchecked(ds) == "ok"

\* get_input_data_tensors, lines 158-161: "files = gfile.Glob(data_pattern);
\* if not files: raise IOError(...)", before any reader or queue is made.
get_input_data_tensors(ds) == IF ds.files THEN "ok" ELSE "IOError"

\* find_class_by_name, lines 178-181: next(...) over the modules' attributes
\* of that name raises StopIteration when none is there; what is found is
\* returned without a test of its family.
find_class_by_name(kind) ==
    IF kind = "missing" THEN "StopIteration" ELSE "found"

\* What a part of build_model left behind: the exception it raised, the
\* functions it called and whether the handles were registered.
Outcome(e, called, registered) ==
    [error |-> e, called |-> called, registered |-> registered]

\* build_graph, lines 240-338, in the order of the code: the optimizer is
\* constructed (250), the input pipeline (251-257), the model is invoked
\* (262-266), the label loss computed (289-294), the train op made (323-327)
\* and the handles registered (329-338).
build_graph(n, ds, use) ==
    IF n["optimizer"] = "other" /\ use = "not_callable"
    THEN Outcome("TypeError", {"build_graph"}, FALSE)
    ELSE IF get_input_data_tensors(ds) # "ok"
    THEN Outcome(get_input_data_tensors(ds),
                 {"build_graph", "get_input_data_tensors"}, FALSE)
    ELSE IF \E c \in Components : n[c] = "other" /\ use = "no_such_method"
    THEN Outcome("AttributeError",
                 {"build_graph", "get_input_data_tensors", "create_model"},
                 FALSE)
    ELSE Outcome("none",
                 {"build_graph", "get_input_data_tensors", "create_model"},
                 TRUE)

\* build_model, lines 510-550: the model and the label loss are looked up
\* and instantiated (529-531), the optimizer is looked up (532), then
\* build_graph is called (534-546).
build_model(n, ds, use) ==
    IF find_class_by_name(n["model"]) # "found"
    THEN Outcome(find_class_by_name(n["model"]), {}, FALSE)
    ELSE IF n["model"] = "other" /\ use = "not_callable"
    THEN Outcome("TypeError", {}, FALSE)
    ELSE IF find_class_by_name(n["label_loss"]) # "found"
    THEN Outcome(find_class_by_name(n["label_loss"]), {}, FALSE)
    ELSE IF n["label_loss"] = "other" /\ use = "not_callable"
    THEN Outcome("TypeError", {}, FALSE)
    ELSE IF find_class_by_name(n["optimizer"]) # "found"
    THEN Outcome(find_class_by_name(n["optimizer"]), {}, FALSE)
    ELSE build_graph(n, ds, use)

\* Trainer.run, lines 376-393.  The graph object is made (376).
\* recover_model (lines 505-508) reads the snapshot file, which must still
\* be there.  build_model (lines 510-550) raises before anything is
\* registered, or registers the handles.  Then six handles are read with
\* [0], which raises on an empty collection.
SetUpGraph(p) ==
    /\ pc[p] = "graph"
    /\ \E use \in Uses :
         LET mf == meta_filename[p]
             recovers == ShouldRecover(mf)
             recoverFails == recovers /\ ~train_dir.meta
             g1 == IF recovers /\ ~recoverFails
                   THEN import_meta_graph ELSE graph[p]
             builds == ~recoverFails /\ ShouldBuild(mf)
             built == build_model(FLAGS, dataset, use)
             buildFails == builds /\ built.error # "none"
             g2 == IF builds /\ built.registered
                   THEN RegisterHandles(g1, 1) ELSE g1
             readFails == \E k \in FirstItemReads : Len(g2[k]) = 0
         IN  /\ calls' = Called(p,
                    {"Graph"}
                    \cup (IF recovers THEN {"recover_model"} ELSE {})
                    \cup (IF builds
                          THEN {"build_model"} \cup built.called
                          ELSE {}))
             /\ graph' = [graph EXCEPT ![p] = g2]
             /\ IF recoverFails THEN Raise(p, "NotFoundError")
                ELSE IF buildFails THEN Raise(p, built.error)
                ELSE IF readFails THEN Raise(p, "IndexError")
                ELSE Goto(p, "Supervisor")
    /\ UNCHANGED <<config, is_master, target, server, device_fn,
                   meta_filename, steps, metric_events, stop_requested,
                   initialized, log, train_dir, written>>

(* ------------------------------------------------------------------ *)
(* Trainer.run: the Supervisor and its managed session                 *)
(* ------------------------------------------------------------------ *)

\* A write of process p into the training directory.
Wrote(p, kind) == [written EXCEPT ![p] = @ \cup {kind}]

\* Trainer.run, lines 395-406: Supervisor(is_chief=self.is_master) and
\* managed_session.  The chief creates the log directory with its event
\* file and initialises (or restores) the variables; every other trainer
\* gets its session once the variables its target holds are initialised.
\* In a cluster the variables are shared; a local session has its own.
StartSession(p) ==
    /\ pc[p] = "Supervisor"
    /\ IF is_master[p]
       THEN /\ train_dir' = [train_dir EXCEPT !.exists = TRUE,
                                               !.events = TRUE]
            /\ written' = Wrote(p, "events")
            /\ initialized' = [q \in Procs |->
                                  initialized[q] \/ q = p \/ cluster]
       ELSE /\ initialized[p]
            /\ UNCHANGED <<train_dir, written, initialized>>
    /\ Goto(p, "loop")
    /\ UNCHANGED <<config, is_master, target, server, device_fn,
                   meta_filename, graph, calls, steps, metric_events,
                   stop_requested, log>>

\* managed_session of a trainer that is not the chief: waiting for the
\* variables to be initialised times out.
SessionTimeout(p) ==
    /\ pc[p] = "Supervisor"
    /\ ~is_master[p]
    /\ ~initialized[p]
    /\ Raise(p, "DeadlineExceededError")
    /\ UNCHANGED <<config, is_master, target, server, device_fn,
                   meta_filename, graph, calls, steps, metric_events,
                   stop_requested, initialized, log, train_dir, written>>

\* Supervisor(save_model_secs=15 * 60), lines 395-403: while the session is
\* open the chief saves a checkpoint, with its graph snapshot, on a timer.
SaveModel(p) ==
    /\ pc[p] \in {"loop", "export"}
    /\ is_master[p]
    /\ train_dir' = [train_dir EXCEPT !.exists = TRUE, !.checkpoint = TRUE,
                                      !.meta = TRUE]
    /\ written' = Wrote(p, "checkpoint")
    /\ UNCHANGED <<config, pc, error, is_master, target, server, device_fn,
                   meta_filename, graph, calls, steps, metric_events,
                   stop_requested, initialized, log>>

\* Supervisor(save_summaries_secs=120): the chief writes the graph's
\* summaries to the event file on a second timer.
SaveSummaries(p) ==
    /\ pc[p] \in {"loop", "export"}
    /\ is_master[p]
    /\ train_dir' = [train_dir EXCEPT !.exists = TRUE, !.events = TRUE]
    /\ written' = Wrote(p, "events")
    /\ UNCHANGED <<config, pc, error, is_master, target, server, device_fn,
                   meta_filename, graph, calls, steps, metric_events,
                   stop_requested, initialized, log>>

\* The Supervisor's coordinator is asked to stop: an external shutdown
\* request, or one of the Supervisor's threads ending with an error.
RequestStop(p) ==
    /\ pc[p] = "loop"
    /\ ~stop_requested[p]
    /\ stop_requested' = [stop_requested EXCEPT ![p] = TRUE]
    /\ UNCHANGED <<config, pc, error, is_master, target, server, device_fn,
                   meta_filename, graph, calls, steps, metric_events,
                   initialized, log, train_dir, written>>

(* ------------------------------------------------------------------ *)
(* Trainer.run: the training loop                                      *)
(* ------------------------------------------------------------------ *)

\* sess.run([train_op, ...]), lines 413-414: what one step can do.  It
\* succeeds while the input pipeline has a batch, raises OutOfRangeError
\* once the pipeline is exhausted, and can fail for any other reason.
SessRun(p) ==
    (IF steps[p] < dataset.batches THEN {"ok"} ELSE {"OutOfRangeError"})
        \cup {"AbortedError"}

\* Mutant of Caught: a bare "except" that swallows every exception.
Caught_Everything(e) == TRUE

\* Trainer.run, line 448: the exceptions the loop's handler catches.
Caught(e) == e = "OutOfRangeError"

\* Mutant of EmitsMetrics: the "if self.is_master" guard is missing.
EmitsMetrics_Always(master) == TRUE

\* Trainer.run, line 417: the trainer emits metrics after a step.
EmitsMetrics(master) == master

\* Trainer.run, lines 410-442: one iteration whose step succeeds.
TrainStep(p) ==
    /\ pc[p] = "loop"
    /\ ~stop_requested[p]
    /\ "ok" \in SessRun(p)
    /\ steps' = [steps EXCEPT ![p] = @ + 1]
    /\ IF EmitsMetrics(is_master[p])
       THEN /\ metric_events' = [metric_events EXCEPT ![p] = @ + 1]
            /\ train_dir' = [train_dir EXCEPT !.exists = TRUE,
                                               !.events = TRUE]
            /\ written' = Wrote(p, "events")
       ELSE UNCHANGED <<metric_events, train_dir, written>>
    /\ UNCHANGED <<config, pc, error, is_master, target, server, device_fn,
                   meta_filename, graph, calls, stop_requested, initialized,
                   log>>

\* Trainer.run, lines 410-414 and 448-453: one iteration whose step raises.
\* A caught exception is logged, the supervisor is stopped and run returns;
\* any other exception leaves run.
StepRaises(p) ==
    /\ pc[p] = "loop"
    /\ ~stop_requested[p]
    /\ \E e \in SessRun(p) \ {"ok"} :
         IF Caught(e)
         THEN /\ log' = [log EXCEPT ![p] =
                            @ \cup {"Done training -- epoch limit reached.",
                                    "Exited training loop."}]
              /\ Goto(p, "done")
         ELSE /\ Raise(p, e)
              /\ UNCHANGED log
    /\ UNCHANGED <<config, is_master, target, server, device_fn,
                   meta_filename, graph, calls, steps, metric_events,
                   stop_requested, initialized, train_dir, written>>

\* Trainer.run, line 410: sv.should_stop() is true at the top of the loop.
ObserveStop(p) ==
    /\ pc[p] = "loop"
    /\ stop_requested[p]
    /\ Goto(p, "export")
    /\ UNCHANGED <<config, is_master, target, server, device_fn,
                   meta_filename, graph, calls, steps, metric_events,
                   stop_requested, initialized, log, train_dir, written>>

(* ------------------------------------------------------------------ *)
(* Trainer.run: the parameter export after the loop                    *)
(* ------------------------------------------------------------------ *)

\* np.savetxt(FLAGS.train_dir + 'autoencoder_layer%d.model' % i, item) for
\* the items of params from position i on, lines 445-446: the set of
\* outcomes [layers, error], the files created and how the export ended.
\* savetxt opens the file first, which raises IOError without a directory.
\* One tensor's value is a matrix and is written.  The value of a list of
\* tensors is no matrix: writing it raises, or (when the shapes happen to
\* stack) fills the one file with all of them.
RECURSIVE SaveTxtFrom(_, _, _)
SaveTxtFrom(i, params, dir) ==
    IF i > Len(params) THEN {[layers |-> {}, error |-> "none"]}
    ELSE IF ~dir.exists THEN {[layers |-> {}, error |-> "IOError"]}
    ELSE LET rest == SaveTxtFrom(i + 1, params, dir)
             goesOn == {[layers |-> {i - 1} \cup r.layers,
                         error |-> r.error] : r \in rest}
         IN  IF params[i].kind = "tensor"
             THEN goesOn
             ELSE {[layers |-> {i - 1}, error |-> "TypeError"]}
                      \cup goesOn

\* Trainer.run, lines 444-446 and 452-453: sess.run(parameters) returns the
\* collection's structure; every item is written to the file of its index.
\* An exception of savetxt is not one the loop's handler catches.
Export(p) ==
    /\ pc[p] = "export"
    /\ \E out \in SaveTxtFrom(1, graph[p]["parameters"], train_dir) :
         /\ train_dir' = [train_dir EXCEPT !.layers = @ \cup out.layers]
         /\ written' = IF out.layers = {} THEN written
                       ELSE Wrote(p, "autoencoder_layer")
         /\ IF out.error = "none"
            THEN /\ log' = [log EXCEPT ![p] =
                               @ \cup {"Exited training loop."}]
                 /\ Goto(p, "done")
            ELSE /\ Raise(p, out.error)
                 /\ UNCHANGED log
    /\ UNCHANGED <<config, is_master, target, server, device_fn,
                   meta_filename, graph, calls, steps, metric_events,
                   stop_requested, initialized>>

(* ------------------------------------------------------------------ *)
(* The specification                                                   *)
(* ------------------------------------------------------------------ *)

Next ==
    \E p \in Procs :
        \/ Main(p)
        \/ ParameterServerRun(p)
        \/ TrainerInit(p)
        \/ RemoveTrainingDirectory(p)
        \/ StartServerIfDistributed(p)
        \/ GetMetaFilename(p)
        \/ SetUpGraph(p)
        \/ StartSession(p)
        \/ SessionTimeout(p)
        \/ SaveModel(p)
        \/ SaveSummaries(p)
        \/ RequestStop(p)
        \/ TrainStep(p)
        \/ StepRaises(p)
        \/ ObserveStop(p)
        \/ Export(p)

Spec == Init /\ [][Next]_vars

SpecTrainer == InitTrainer /\ [][Next]_vars

SpecNames == InitNames /\ [][Next]_vars

(* ------------------------------------------------------------------ *)
(* The input pipeline and the loop that consumes it                    *)
(* ------------------------------------------------------------------ *)

\* What the pipeline's threads and the loop's step leave alone.
settings ==
    <<cluster, start_new_model, dataset, task, FLAGS, call, result>>

run_state ==
    <<is_master, target, server, device_fn, meta_filename, graph, calls,
      stop_requested, initialized>>

\* The queue runners of the pipeline run while the session of p1 is open.
Reading(p) == p = "p1" /\ pc[p] = "loop"

\* get_input_data_tensors, lines 165-168: a reader takes the next examples
\* of the files the filename queue hands it (prepare_reader).
ReaderRead(p, r) ==
    /\ Reading(p)
    /\ r \notin train_input.finished
    /\ train_input.pending[r] = 0
    /\ \E k \in 1 .. MaxRead :
         /\ k <= train_input.unread
         /\ train_input' = [train_input EXCEPT !.unread = @ - k,
                                               !.pending[r] = k]
    /\ UNCHANGED <<settings, run_state, pc, error, steps, metric_events,
                   log, train_dir, written>>

\* shuffle_batch_join, lines 169-175, enqueue_many=True: the examples a
\* reader holds enter the queue one by one while there is room.
ReaderEnqueue(p, r) ==
    /\ Reading(p)
    /\ train_input.pending[r] > 0
    /\ train_input.size < Capacity(train_input.batch_size)
    /\ train_input' = [train_input EXCEPT !.pending[r] = @ - 1,
                                          !.size = @ + 1]
    /\ UNCHANGED <<settings, run_state, pc, error, steps, metric_events,
                   log, train_dir, written>>

\* string_input_producer, lines 162-164, num_epochs: after the last epoch
\* the filename queue is closed and a reader that finds it empty ends; the
\* last reader to end closes the shuffle queue.
ReaderFinish(p, r) ==
    /\ Reading(p)
    /\ r \notin train_input.finished
    /\ train_input.pending[r] = 0
    /\ train_input.unread = 0
    /\ LET done == train_input.finished \cup {r}
       IN  train_input' = [train_input EXCEPT !.finished = done,
                                             !.closed = (done = Readers)]
    /\ UNCHANGED <<settings, run_state, pc, error, steps, metric_events,
                   log, train_dir, written>>

\* sess.run, lines 413-414, waiting in the dequeue of shuffle_batch_join:
\* an example leaves the queue while more than min_after_dequeue are in it,
\* or any is once the queue is closed.
Dequeue(p) ==
    /\ Reading(p)
    /\ train_input.taken < train_input.batch_size
    /\ train_input.size > 0
    /\ \/ train_input.closed
       \/ train_input.size > MinAfterDequeue(train_input.batch_size)
    /\ train_input' = [train_input EXCEPT !.size = @ - 1, !.taken = @ + 1]
    /\ UNCHANGED <<settings, run_state, pc, error, steps, metric_events,
                   log, train_dir, written>>

\* Trainer.run, lines 410-442: one iteration whose sess.run got a batch, a
\* full one, or what was left in the closed queue (lines 173-174:
\* allow_smaller_final_batch).
BatchStep(p) ==
    /\ Reading(p)
    /\ ~stop_requested[p]
    /\ \/ train_input.taken = train_input.batch_size
       \/ /\ allow_smaller_final_batch
          /\ train_input.closed
          /\ train_input.size = 0
          /\ train_input.taken > 0
    /\ train_input' = [train_input EXCEPT
                           !.handed = @ + train_input.taken,
                           !.last = train_input.taken,
                           !.taken = 0]
    /\ steps' = [steps EXCEPT ![p] = @ + 1]
    /\ IF EmitsMetrics(is_master[p])
       THEN /\ metric_events' = [metric_events EXCEPT ![p] = @ + 1]
            /\ train_dir' = [train_dir EXCEPT !.exists = TRUE,
                                               !.events = TRUE]
            /\ written' = Wrote(p, "events")
       ELSE UNCHANGED <<metric_events, train_dir, written>>
    /\ UNCHANGED <<settings, run_state, pc, error, log>>

\* Trainer.run, lines 413-414 and 448-453: the dequeue finds the queue
\* closed and empty, sess.run raises OutOfRangeError, which the loop
\* catches.
EndOfInput(p) ==
    /\ Reading(p)
    /\ ~stop_requested[p]
    /\ train_input.closed
    /\ train_input.size = 0
    /\ \/ train_input.taken = 0
       \/ /\ ~allow_smaller_final_batch
          /\ train_input.taken < train_input.batch_size
    /\ Caught("OutOfRangeError")
    /\ log' = [log EXCEPT ![p] =
                  @ \cup {"Done training -- epoch limit reached.",
                          "Exited training loop."}]
    /\ Goto(p, "done")
    /\ UNCHANGED <<settings, run_state, train_input, steps, metric_events,
                   train_dir, written>>

\* A non-distributed run from main() to the end of its input.
NextInput ==
    \E p \in Procs :
        \/ Main(p)
        \/ TrainerInit(p)
        \/ RemoveTrainingDirectory(p)
        \/ StartServerIfDistributed(p)
        \/ GetMetaFilename(p)
        \/ SetUpGraph(p)
        \/ StartSession(p)
        \/ \E r \in Readers : ReaderRead(p, r)
        \/ \E r \in Readers : ReaderEnqueue(p, r)
        \/ \E r \in Readers : ReaderFinish(p, r)
        \/ Dequeue(p)
        \/ BatchStep(p)
        \/ EndOfInput(p)

SpecInput == InitInput /\ [][NextInput]_vars

(* ------------------------------------------------------------------ *)
(* Functions called on their own                                       *)
(* ------------------------------------------------------------------ *)

\* What getattr(module, flag_value, None) gives for one candidate module:
\* nothing (the default None), a value that is false in a test (None, 0,
\* an empty container), a subclass of the expected superclass, another
\* class, or an object that is no class (a function, an imported module).
AttrKinds == {"absent", "falsy", "subclass", "class", "object"}

\* validate_class_name, line 124: "if not candidate".
Truthy(kind) == kind \notin {"absent", "falsy"}

\* The builtin issubclass(candidate, expected_superclass) of line 126: it
\* raises TypeError when its first argument is not a class.
issubclass(kind) ==
    IF kind = "object" THEN "TypeError"
    ELSE IF kind = "subclass" THEN "True"
    ELSE "False"

Returned(value) == [status |-> "returned", value |-> value, message |-> ""]

Raised(e, message) == [status |-> "raised", value |-> e, message |-> message]

\* validate_class_name, lines 123-131, from the i-th candidate on.
RECURSIVE validate_class_name(_, _)
validate_class_name(candidates, i) ==
    IF i > Len(candidates)
    THEN Raised("FlagsError", "Unable to find")
    ELSE IF ~Truthy(candidates[i])
    THEN validate_class_name(candidates, i + 1)
    ELSE IF issubclass(candidates[i]) = "TypeError"
    THEN Raised("TypeError", "issubclass() arg 1 must be a class")
    ELSE IF issubclass(candidates[i]) = "False"
    THEN Raised("FlagsError", "doesn't inherit")
    ELSE Returned("True")

\* The sequences of at most n candidates.
RECURSIVE CandidateLists(_)
CandidateLists(n) ==
    IF n = 0 THEN {<<>>}
    ELSE LET shorter == CandidateLists(n - 1)
         IN  shorter \cup {Append(c, k) : c \in shorter, k \in AttrKinds}

ValidateCalls ==
    {[fn |-> "validate_class_name", candidates |-> c] :
        c \in CandidateLists(MaxModules)}

\* validate_class_name is applied to its candidates.
ValidateClassName ==
    /\ call.fn = "validate_class_name"
    /\ result.status = "pending"
    /\ result' = validate_class_name(call.candidates, 1)
    /\ UNCHANGED <<cluster, start_new_model, dataset, task, FLAGS,
                   train_input, call, run_state, pc, error, steps,
                   metric_events, log, train_dir, written>>

\* The keys the result of model.create_model may hold (lines 271-311).
ResultKeys ==
    {"predictions", "bottleneck", "predictions_class", "loss_sparse", "loss",
     "regularization_loss", "update_ops"}

\* Mutant of label_loss: the class predictions are looked for first.
label_loss_MixFirst(keys) ==
    IF "predictions_class" \in keys THEN "calculate_loss_mix"
    ELSE IF "loss" \in keys THEN "result.loss"
    ELSE "calculate_loss"

\* build_graph, lines 289-294: where the label loss comes from.
label_loss(keys) ==
    IF "loss" \in keys THEN "result.loss"
    ELSE IF "predictions_class" \in keys THEN "calculate_loss_mix"
    ELSE "calculate_loss"

\* Mutant of update_ops: the graph's UPDATE_OPS collection is not read.
update_ops_ResultOnly(UPDATE_OPS, keys, result_ops) ==
    IF "update_ops" \in keys THEN result_ops ELSE <<>>

\* build_graph, lines 310-312: the graph's UPDATE_OPS collection, followed
\* by the update ops of the model result if it has any.
update_ops(UPDATE_OPS, keys, result_ops) ==
    UPDATE_OPS \o (IF "update_ops" \in keys THEN result_ops ELSE <<>>)

\* build_graph, lines 271-319: what the losses are made of.  The label loss
\* is read behind the gradient barrier, which waits for the update ops,
\* when there is any update op (line 313: "if update_ops").
losses(keys, result_ops, UPDATE_OPS) ==
    IF "predictions" \notin keys
    THEN Raised("KeyError", "predictions")
    ELSE LET ops == update_ops(UPDATE_OPS, keys, result_ops)
         IN  [status |-> "returned",
              bottleneck |-> IF "bottleneck" \in keys
                             THEN "result.bottleneck" ELSE "constant",
              predictions_class |-> IF "predictions_class" \in keys
                                    THEN "result.predictions_class"
                                    ELSE "result.predictions",
              sparse_loss |-> IF "loss_sparse" \in keys
                              THEN "result.loss_sparse" ELSE "constant",
              label_loss |-> label_loss(keys),
              reg_loss |-> IF "regularization_loss" \in keys
                           THEN "result.regularization_loss"
                           ELSE "constant",
              gradient_barrier |-> ops # <<>>,
              control_inputs |-> ops]

\* The update ops a model result may hold, and those the layers of the
\* model may have put into the graph's UPDATE_OPS collection.
ResultOps == {<<>>, <<"model_update">>}

GraphOps == {<<>>, <<"moving_average">>}

BuildGraphCalls ==
    {c \in [fn : {"build_graph"}, keys : SUBSET ResultKeys,
            update_ops : ResultOps, UPDATE_OPS : GraphOps] :
        "update_ops" \in c.keys \/ c.update_ops = <<>>}

\* The losses of build_graph are made from a model result.
BuildGraphLosses ==
    /\ call.fn = "build_graph"
    /\ result.status = "pending"
    /\ result' = losses(call.keys, call.update_ops, call.UPDATE_OPS)
    /\ UNCHANGED <<cluster, start_new_model, dataset, task, FLAGS,
                   train_input, call, run_state, pc, error, steps,
                   metric_events, log, train_dir, written>>

\* Half of the bits of global_step, which tf.Variable(0) makes a 32-bit
\* integer, as a factor.
Limb == 2 ^ 16

\* build_graph, line 244: global_step * batch_size, the product of two
\* 32-bit integers, which keeps the low 32 bits (two's complement).  The
\* step is below 2^31 and the batch size below 2^15.
Int32Mul(step, size) ==
    LET low == (step % Limb) * size
        high == ((step \div Limb) * size + low \div Limb) % Limb
        signed == IF high >= Limb \div 2 THEN high - Limb ELSE high
    IN  (signed * Limb) + (low % Limb)

\* build_graph, line 247: staircase=True.
staircase == TRUE

\* tf.train.exponential_decay as build_graph calls it, lines 242-247: the
\* rate is base * decay ^ exponent, with the exponent examples / decay
\* steps, rounded down when staircase is set.  The exponent is kept as a
\* fraction.
exponential_decay(base, examples, decay_steps, decay) ==
    [status |-> "returned",
     base |-> base,
     decay |-> decay,
     exponent |-> IF staircase
                  THEN [num |-> examples \div decay_steps, den |-> 1]
                  ELSE [num |-> examples, den |-> decay_steps]]

\* build_graph, lines 240-247: the learning rate at a global step.
learning_rate(base, global_step, batch_size, decay_examples, decay) ==
    exponential_decay(base, Int32Mul(global_step, batch_size),
                      decay_examples, decay)

\* The global steps looked at: the first steps of a run, and the step
\* that many batches later at which as many batches as the default decay
\* interval has examples were consumed.
GlobalSteps == (0 .. MaxStep) \cup {DefaultDecayExamples}

\* Rates and decays in thousandths (the defaults are 0.001 and 0.95).
LearningRateCalls ==
    [fn : {"learning_rate"},
     base : {1, 10},
     decay : {950},
     global_step : GlobalSteps,
     batch_size : {1, 2, DefaultBatchSize},
     decay_examples : {3, 4, DefaultDecayExamples}]

\* The learning rate of build_graph is evaluated at a global step.
LearningRate ==
    /\ call.fn = "learning_rate"
    /\ result.status = "pending"
    /\ result' = learning_rate(call.base, call.global_step, call.batch_size,
                               call.decay_examples, call.decay)
    /\ UNCHANGED <<cluster, start_new_model, dataset, task, FLAGS,
                   train_input, call, run_state, pc, error, steps,
                   metric_events, log, train_dir, written>>

\* No process runs; one function is called with any arguments.
InitCalls ==
    /\ InitAt("absent")
    /\ ~cluster
    /\ pc["p2"] = "absent"
    /\ task["p1"] = DefaultTask
    /\ ~start_new_model["p1"]
    /\ train_dir = EmptyDir
    /\ dataset = [files |-> TRUE, batches |-> 0]
    /\ FLAGS = ConformingNames
    /\ train_input = NoInput
    /\ result = NoResult
    /\ \/ call \in ValidateCalls
       \/ call \in BuildGraphCalls
       \/ call \in LearningRateCalls

NextCalls ==
    \/ ValidateClassName
    \/ BuildGraphLosses
    \/ LearningRate

SpecCalls == InitCalls /\ [][NextCalls]_vars

(* ------------------------------------------------------------------ *)
(* Properties                                                          *)
(* ------------------------------------------------------------------ *)

\* The task is the sole master: role master, index 0.
SoleMaster(p) == task[p].type = "master" /\ task[p].index = 0

\* The positions of a process inside Trainer.run.
RunPositions ==
    {"run", "start_server_if_distributed", "get_meta_filename", "graph",
     "Supervisor", "loop", "export"}

\* The positions of Trainer.run after the graph was set up.
AfterGraph == {"Supervisor", "loop", "export", "done"}

Count(p, name) == calls[p][name]

\* C1: the step that takes the resume decision returns a snapshot filename
\* (RECOVER) exactly when start_new_model is false, the directory holds a
\* latest-checkpoint pointer and that checkpoint's ".meta" file exists; it
\* returns None (FRESH) otherwise; with start_new_model set no checkpoint
\* lookup is made.
C1_ResumeDecision ==
    [][\A p \in Procs :
          (pc[p] = "get_meta_filename" /\ pc'[p] # "get_meta_filename") =>
              /\ meta_filename'[p] \in {NoneVal, MetaFile}
              /\ (meta_filename'[p] = MetaFile) <=>
                     (/\ ~start_new_model[p]
                      /\ train_dir.checkpoint
                      /\ train_dir.meta)
              /\ start_new_model[p] =>
                     Count(p, "latest_checkpoint")' = 0
              /\ ~start_new_model[p] =>
                     Count(p, "latest_checkpoint")' = 1]_vars

\* C1 witness: a process decided RECOVER.
C1_Witness ==
    \E p \in Procs : pc[p] = "graph" /\ meta_filename[p] = MetaFile

\* C2 as stated: every Trainer.run, when it ends, has executed exactly one
\* of recover_model and build_model, once.
C2_Original ==
    [][\A p \in Procs :
          (pc[p] \in RunPositions /\ pc'[p] \in {"done", "failed"}) =>
              Count(p, "recover_model")' + Count(p, "build_model")' = 1]_vars

\* C2 amended: never more than one of recover_model and build_model is
\* executed, and never twice; once a run has taken its resume decision and
\* acted on it, exactly one was executed, once: build_model (with
\* build_graph) iff the decision is FRESH, recover_model iff it is RECOVER,
\* and on RECOVER neither build_graph nor the input pipeline constructor ran.
C2_ExactlyOneOnceDecided ==
    \A p \in Procs :
        /\ Count(p, "recover_model") + Count(p, "build_model") <= 1
        /\ (pc[p] \in AfterGraph
              \/ (pc[p] = "failed" /\ meta_filename[p] # "unset")) =>
               /\ Count(p, "recover_model") + Count(p, "build_model") = 1
               /\ Count(p, "build_model") = 1 <=> meta_filename[p] = NoneVal
               /\ Count(p, "recover_model") = 1
                      <=> meta_filename[p] = MetaFile
               /\ meta_filename[p] = MetaFile =>
                      /\ Count(p, "build_graph") = 0
                      /\ Count(p, "get_input_data_tensors") = 0
               /\ meta_filename[p] = NoneVal =>
                      Count(p, "build_graph") = 1

\* C2 witness: a run that recovered its graph has returned.
C2_Witness ==
    \E p \in Procs : pc[p] = "done" /\ Count(p, "recover_model") = 1

\* C3 as stated: with start_new_model on the sole master, the training
\* directory is absent from the removal until the graph is set up.
C3_Original ==
    \A p \in Procs :
        (/\ SoleMaster(p)
         /\ start_new_model[p]
         /\ pc[p] \in {"start_server_if_distributed", "get_meta_filename",
                       "graph"}) =>
            ~train_dir.exists

\* C3 amended: with start_new_model on the sole master, the removal has been
\* attempted once before the server start, and until the graph is set up the
\* training directory is absent unless the deletion raised, which was logged
\* and did not stop the run.
C3_AbsentUnlessDeletionFailed ==
    \A p \in Procs :
        (/\ SoleMaster(p)
         /\ start_new_model[p]
         /\ pc[p] \in {"start_server_if_distributed", "get_meta_filename",
                       "graph"}) =>
            /\ Count(p, "remove_training_directory") = 1
            /\ ~train_dir.exists
                  \/ "Failed to delete directory" \in log[p]
            /\ error[p] = "none"

\* C3 witness: the sole master, starting a new model, is about to set up its
\* graph with the directory gone and no failure logged.
C3_Witness ==
    \E p \in Procs :
        /\ SoleMaster(p)
        /\ start_new_model[p]
        /\ pc[p] = "graph"
        /\ ~train_dir.exists
        /\ log[p] = {}

\* C4 as stated: whenever the sole master has decided FRESH and built the
\* graph, the training directory was deleted before.
C4_Original ==
    \A p \in Procs :
        (/\ SoleMaster(p)
         /\ meta_filename[p] = NoneVal
         /\ Count(p, "build_model") > 0) =>
            Count(p, "remove_training_directory") > 0

\* C4 amended: on the sole master the graph is built only after a FRESH
\* decision; when that decision is FRESH because a fresh start was requested
\* the deletion of the training directory was attempted before it, and when
\* it is FRESH for either other reason no deletion was attempted.
C4_DeletedOnlyOnFreshStart ==
    \A p \in Procs :
        SoleMaster(p) =>
            /\ Count(p, "build_model") > 0 => meta_filename[p] = NoneVal
            /\ (meta_filename[p] = NoneVal /\ start_new_model[p]) =>
                   Count(p, "remove_training_directory") = 1
            /\ (meta_filename[p] = NoneVal /\ ~start_new_model[p]) =>
                   Count(p, "remove_training_directory") = 0

\* C4 witness: the sole master built a fresh graph because the checkpoint
\* had no snapshot, and the old checkpoint is still in the directory.
C4_Witness ==
    \E p \in Procs :
        /\ SoleMaster(p)
        /\ ~start_new_model[p]
        /\ pc[p] = "Supervisor"
        /\ Count(p, "build_model") = 1
        /\ train_dir.checkpoint
        /\ ~train_dir.meta

\* C5 as stated: a task with role master and an index above 0 never gets
\* past Trainer.__init__.
C5_Claim ==
    \A p \in Procs :
        (task[p].type = "master" /\ task[p].index > 0) =>
            pc[p] \notin RunPositions \cup {"done"}

\* C6 as stated: a process whose role is ps, with or without a cluster spec,
\* never removes the directory, looks up a checkpoint, builds or recovers a
\* graph, or runs a training step.
C6_Original ==
    \A p \in Procs :
        task[p].type = "ps" =>
            /\ \A c \in CallNames \ {"start_server"} : Count(p, c) = 0
            /\ steps[p] = 0
            /\ pc[p] \in {"main", "ParameterServer", "join", "failed"}

\* C6 amended: in a run with a cluster spec, a process whose role is ps only
\* starts its server and joins it; it never removes the directory, looks up
\* a checkpoint, builds or recovers a graph, runs a training step or writes
\* into the training directory.
C6_ParameterServerOnlyServes ==
    \A p \in Procs :
        (cluster /\ task[p].type = "ps") =>
            /\ \A c \in CallNames \ {"start_server"} : Count(p, c) = 0
            /\ Count(p, "start_server") <= 1
            /\ steps[p] = 0
            /\ written[p] = {}
            /\ pc[p] \in {"main", "ParameterServer", "join", "failed"}
            /\ pc[p] = "join" => Count(p, "start_server") = 1

\* C6 witness: a parameter server of a cluster has joined its server.
C6_Witness ==
    \E p \in Procs : cluster /\ task[p].type = "ps" /\ pc[p] = "join"

\* C7: the number of metric emissions equals the number of completed
\* training steps on the sole master and is zero on every other trainer.
C7_MetricsOnlyOnMaster ==
    \A p \in Procs :
        /\ SoleMaster(p) => metric_events[p] = steps[p]
        /\ ~SoleMaster(p) => metric_events[p] = 0

\* C7 witness: the sole master has emitted twice after two steps while
\* another trainer has stepped without emitting.
C7_Witness ==
    \E p, q \in Procs :
        /\ SoleMaster(p)
        /\ steps[p] > 1
        /\ metric_events[p] = steps[p]
        /\ ~SoleMaster(q)
        /\ steps[q] > 0
        /\ metric_events[q] = 0

\* C8: the loop is left in three ways only.  The stop condition is seen at
\* the top of an iteration, and no training step runs afterwards.  Or a step
\* raises at the end of the data: this is logged and run returns without an
\* error.  Or a step fails otherwise, and the failure leaves run.  A step
\* is taken only inside the loop with the stop condition not set.
C8_LoopExits ==
    [][\A p \in Procs :
          /\ steps'[p] # steps[p] => pc[p] = "loop" /\ ~stop_requested[p]
          /\ (pc[p] = "loop" /\ pc'[p] # "loop") =>
                 \/ /\ stop_requested[p]
                    /\ pc'[p] = "export"
                    /\ error'[p] = "none"
                 \/ /\ ~stop_requested[p]
                    /\ steps[p] >= dataset.batches
                    /\ pc'[p] = "done"
                    /\ error'[p] = "none"
                    /\ "Done training -- epoch limit reached." \in log'[p]
                    /\ "Exited training loop." \in log'[p]
                 \/ /\ ~stop_requested[p]
                    /\ pc'[p] = "failed"
                    /\ error'[p] \notin {"none", "OutOfRangeError"}]_vars

\* C8 witness: a run has returned after its data ran out, having stepped.
C8_Witness ==
    \E p \in Procs :
        /\ pc[p] = "done"
        /\ steps[p] > 0
        /\ "Done training -- epoch limit reached." \in log[p]

\* C9 as stated: when run has returned on the sole master, the four files
\* autoencoder_layer0.model .. autoencoder_layer3.model are written.
C9_Claim ==
    \A p \in Procs :
        (SoleMaster(p) /\ pc[p] = "done") => LayerIds \subseteq train_dir.layers

\* C10 as stated: in a distributed run a trainer that is not the sole master
\* writes nothing into the training directory.
C10_Claim ==
    \A p \in Procs :
        (cluster /\ ~SoleMaster(p)) => written[p] = {}

\* C11 as stated: a run whose glob matches no file never gets past the set-up
\* of its graph and never completes a step, whichever way the graph is
\* obtained.
C11_Original ==
    \A p \in Procs :
        ~dataset.files => (pc[p] \notin AfterGraph /\ steps[p] = 0)

\* C11: a run that builds its graph afresh while the glob matches no file
\* fails with IOError in the set-up of the graph: nothing is registered, no
\* step runs and no batch is produced; the glob is evaluated only by the
\* builder, so IOError comes from nowhere else.
C11_EmptyGlobFailsFreshBuild ==
    \A p \in Procs :
        /\ (/\ ~dataset.files
            /\ meta_filename[p] = NoneVal
            /\ pc[p] # "graph")
           => /\ pc[p] = "failed"
              /\ error[p] = "IOError"
              /\ Count(p, "get_input_data_tensors") = 1
              /\ graph[p] = NoGraph
              /\ steps[p] = 0
              /\ metric_events[p] = 0
        /\ error[p] = "IOError"
           => (~dataset.files /\ Count(p, "get_input_data_tensors") = 1)

C11_Witness ==
    \E p \in Procs :
        /\ ~dataset.files
        /\ pc[p] = "failed"
        /\ error[p] = "IOError"
        /\ Count(p, "build_model") = 1

\* C12: start_server_if_distributed starts a server exactly when a cluster
\* spec is present.  Without one no server is started and the session target
\* and the device function are empty.  With one, a server bound to the role
\* and index of the task is started, unless the role is unset or the index
\* is None: then ValueError is raised and no server is started.  Index 0 is
\* a valid index.
C12_ServerIffCluster ==
    [][\A p \in Procs :
         (pc[p] = "start_server_if_distributed"
          /\ pc'[p] # "start_server_if_distributed")
         => LET t == task[p]
                unset == t.type = NoneVal \/ t.index = NoIndex
            IN  /\ (server'[p] # NoServer) <=> (cluster /\ ~unset)
                /\ ~cluster
                   => /\ target'[p] = ""
                      /\ device_fn'[p] = NoDeviceFn
                      /\ Count(p, "start_server")' = 0
                      /\ pc'[p] = "get_meta_filename"
                /\ (cluster /\ ~unset)
                   => /\ server'[p] =
                            [job_name |-> t.type, task_index |-> t.index]
                      /\ target'[p] = "grpc"
                      /\ device_fn'[p].job = t.type
                      /\ device_fn'[p].task = t.index
                      /\ pc'[p] = "get_meta_filename"
                /\ (cluster /\ unset)
                   => /\ pc'[p] = "failed"
                      /\ error'[p] = "ValueError"
                      /\ target'[p] = "unset"
                /\ (cluster /\ t.type # NoneVal /\ t.index = 0)
                   => server'[p] # NoServer
      ]_vars

C12_Witness ==
    \E p \in Procs :
        /\ cluster
        /\ task[p].type = NoneVal
        /\ Count(p, "start_server_if_distributed") = 1
        /\ pc[p] = "failed"
        /\ error[p] = "ValueError"
        /\ server[p] = NoServer

\* The coordinator was consulted by p and failed: no target was returned.
CoordinatorFailed(p) ==
    Count(p, "start_server_if_distributed") = 1 /\ target[p] = "unset"

\* C13: in every Trainer.run the coordinator (start_server_if_distributed)
\* is consulted exactly once, before the checkpoint lookup, the recovery and
\* the construction of the graph; in a run where it failed no checkpoint is
\* looked up and no graph is recovered or built.
C13_CoordinatorFirstAndOnce ==
    \A p \in Procs :
        /\ Count(p, "start_server_if_distributed") <= 1
        /\ pc[p] \in (RunPositions \cup {"done"})
                        \ {"run", "start_server_if_distributed"}
           => Count(p, "start_server_if_distributed") = 1
        /\ (\/ meta_filename[p] # "unset"
            \/ Count(p, "latest_checkpoint") > 0
            \/ Count(p, "recover_model") > 0
            \/ Count(p, "build_model") > 0
            \/ graph[p] # NoGraph)
           => (Count(p, "start_server_if_distributed") = 1
               /\ ~CoordinatorFailed(p))
        /\ CoordinatorFailed(p)
           => /\ pc[p] = "failed"
              /\ error[p] = "ValueError"
              /\ meta_filename[p] = "unset"
              /\ Count(p, "latest_checkpoint") = 0
              /\ Count(p, "recover_model") = 0
              /\ Count(p, "build_model") = 0
              /\ graph[p] = NoGraph

C13_Witness ==
    \E p, q \in Procs :
        /\ CoordinatorFailed(p)
        /\ pc[p] = "failed"
        /\ Count(q, "start_server_if_distributed") = 1
        /\ Count(q, "build_model") = 1
        /\ pc[q] = "Supervisor"

\* C14: when the name of the model, of the label loss or of the optimizer
\* cannot be resolved or resolves to something that is not of the expected
\* family, the run fails before a graph is created, before the input
\* pipeline is constructed and before any model code is invoked.
C14_Claim ==
    \A p \in Procs :
        (\E c \in Components : FLAGS[c] # "class")
        => /\ Count(p, "Graph") = 0
           /\ Count(p, "get_input_data_tensors") = 0
           /\ Count(p, "create_model") = 0
           /\ pc[p] \notin AfterGraph

\* The smallest number of batches of b examples that hold a examples.
CeilDiv(a, b) == (a + b - 1) \div b

\* C15: in a non-distributed run of the sole master that builds its graph
\* afresh over N examples with batch size B and E epochs, the loop never
\* makes more than ceil(N*E/B) steps, emits one group of metrics per step,
\* can always go on until the input is exhausted, and then has made exactly
\* ceil(N*E/B) steps and ended without error.
C15_StepsPerEpochs ==
    LET p == "p1"
        total == train_input.num_examples * train_input.num_epochs
        expected == CeilDiv(total, train_input.batch_size)
    IN  /\ steps[p] <= expected
        /\ metric_events[p] = steps[p]
        /\ error[p] = "none"
        /\ pc[p] = "loop" => ENABLED NextInput
        /\ pc[p] = "done"
           => /\ steps[p] = expected
              /\ "Done training -- epoch limit reached." \in log[p]

\* The run over 3 examples with batch size 2 and 1 epoch has ended: its
\* second batch was a partial one.
C15_Witness ==
    /\ train_input.num_examples = 3
    /\ train_input.batch_size = 2
    /\ train_input.num_epochs = 1
    /\ pc["p1"] = "done"
    /\ steps["p1"] = 2
    /\ metric_events["p1"] = 2
    /\ train_input.last = 1

\* All the examples the pipeline is to deliver.
TotalExamples == train_input.num_examples * train_input.num_epochs

\* The buffer holds at most five batches; the queue is closed only when
\* nothing is left to read; the loop has ended only after the closed queue
\* was emptied and every example handed over.
BufferBounded ==
    /\ train_input.size <= 5 * train_input.batch_size
    /\ train_input.closed => train_input.unread = 0
    /\ pc["p1"] = "done"
       => /\ train_input.closed
          /\ train_input.size = 0
          /\ train_input.handed = TotalExamples

\* A step that takes an example out of the open queue leaves a batch size
\* of examples in it; a batch handed over while the queue is open is full
\* and leaves a batch size behind; a partial batch is the last one.
HandsOver ==
    /\ (train_input'.size < train_input.size /\ ~train_input.closed)
       => train_input'.size >= train_input.batch_size
    /\ (train_input'.handed # train_input.handed /\ ~train_input.closed)
       => /\ train_input'.last = train_input.batch_size
          /\ train_input'.size >= train_input.batch_size
    /\ (/\ train_input'.handed # train_input.handed
        /\ train_input'.last < train_input.batch_size)
       => /\ train_input.closed
          /\ train_input.size = 0
          /\ train_input'.handed = TotalExamples

\* C20: under every interleaving of the readers and the consumer, the
\* shuffle buffer never holds more than five batches of examples; while the
\* queue is open an example leaves it only if a batch size of examples
\* remains, and a batch handed to the consumer is a full one that leaves a
\* batch size of examples behind; a partial batch is handed only out of the
\* closed and emptied queue; and the end of the input is signalled only
\* when every example of every epoch has been handed over.
C20_ShuffleBuffer == []BufferBounded /\ [][HandsOver]_vars

\* The buffer is full and a reader waits with an example in hand, after
\* the consumer was handed a batch.
C20_Witness ==
    /\ train_input.size = 5 * train_input.batch_size
    /\ \E r \in Readers : train_input.pending[r] > 0
    /\ ~train_input.closed
    /\ steps["p1"] > 0

\* The named handles the training loop and the export read.
LoopHandles ==
    {"global_step", "loss", "reg_loss", "predictions", "labels", "train_op",
     "parameters"}

\* C16 as stated: when one run has built its graph afresh and written a
\* checkpoint and another run has recovered its graph from the snapshot,
\* the second run did not invoke the graph builder and each named handle of
\* its graph has the contents the fresh build registered.
C16_Claim ==
    \A p, q \in Procs :
        (/\ Count(p, "build_graph") = 1
         /\ pc[p] \in AfterGraph
         /\ "checkpoint" \in written[p]
         /\ Count(q, "recover_model") = 1
         /\ pc[q] \in AfterGraph)
        => /\ Count(q, "build_graph") = 0
           /\ \A k \in LoopHandles : graph[q][k] = graph[p][k]

\* The first candidate module that defines an attribute of the name
\* (0 if none does).
FirstDefining(candidates) ==
    LET defining == {i \in 1 .. Len(candidates) : candidates[i] # "absent"}
    IN  IF defining = {} THEN 0
        ELSE CHOOSE i \in defining : \A j \in defining : i <= j

\* C17 as stated: the outcome of validate_class_name is decided by the first
\* candidate module that defines an attribute of the name: True if that
\* attribute is a subclass of the expected superclass, the "doesn't inherit"
\* configuration error if it is not; the "Unable to find" configuration
\* error is raised exactly when no candidate module defines the name.
C17_Claim ==
    (call.fn = "validate_class_name" /\ result.status # "pending")
    => LET first == FirstDefining(call.candidates)
       IN  /\ (first # 0 /\ call.candidates[first] = "subclass")
              => result = Returned("True")
           /\ (first # 0 /\ call.candidates[first] # "subclass")
              => result = Raised("FlagsError", "doesn't inherit")
           /\ result = Raised("FlagsError", "Unable to find") <=> first = 0

\* The losses of build_graph were made from the model result of the call.
LossesMade == call.fn = "build_graph" /\ result.status = "returned"

\* C18 as stated: when the model result omits update_ops no gradient barrier
\* is inserted, whatever the graph has registered; a barrier is inserted
\* exactly when the model result supplies a non-empty list of update ops.
C18_Original ==
    LossesMade
    => /\ "update_ops" \notin call.keys => ~result.gradient_barrier
       /\ result.gradient_barrier
          <=> ("update_ops" \in call.keys /\ call.update_ops # <<>>)

\* C18: a gradient barrier is inserted exactly when the graph's UPDATE_OPS
\* collection or the update ops of the model result hold an op; the label
\* loss then waits for every op of both, those of the collection first.
\* When the model result omits update_ops and the collection is empty, no
\* barrier is inserted and the label loss is read directly.
C18_BarrierIffAnyUpdateOp ==
    LossesMade
    => LET supplied == IF "update_ops" \in call.keys
                       THEN call.update_ops ELSE <<>>
       IN  /\ result.gradient_barrier
              <=> (call.UPDATE_OPS # <<>> \/ supplied # <<>>)
           /\ result.control_inputs = call.UPDATE_OPS \o supplied
           /\ ("update_ops" \notin call.keys /\ call.UPDATE_OPS = <<>>)
              => (~result.gradient_barrier /\ result.control_inputs = <<>>)

\* The model result omits update_ops, the graph has registered one: the
\* barrier is there.
C18_Witness ==
    /\ LossesMade
    /\ "update_ops" \notin call.keys
    /\ call.UPDATE_OPS # <<>>
    /\ result.gradient_barrier

\* C19: the label loss is the model result's 'loss' whenever that key is
\* present, also when 'predictions_class' is present too; otherwise it is
\* the mixed loss exactly when 'predictions_class' is present; otherwise the
\* plain loss.  One of the three is selected for every combination of keys
\* with which the losses are made.
C19_LabelLossPriority ==
    LossesMade
    => /\ "loss" \in call.keys => result.label_loss = "result.loss"
       /\ "loss" \notin call.keys
          => (result.label_loss = "calculate_loss_mix"
              <=> "predictions_class" \in call.keys)
       /\ ("loss" \notin call.keys /\ "predictions_class" \notin call.keys)
          => result.label_loss = "calculate_loss"
       /\ result.label_loss
             \in {"result.loss", "calculate_loss_mix", "calculate_loss"}

C19_Witness ==
    /\ LossesMade
    /\ {"loss", "predictions_class"} \subseteq call.keys
    /\ result.label_loss = "result.loss"

\* C21 as stated: a process that is in the training loop, or has made a
\* step, has every handle the loop and the export read populated in its
\* graph, by the construction or by the recovery that preceded the loop.
C21_Claim ==
    \A p \in Procs :
        (pc[p] \in {"loop", "export"} \/ steps[p] > 0)
        => \A k \in LoopHandles : graph[p][k] # <<>>

\* floor(step * size / interval) in unbounded integers, computed without a
\* product that exceeds 31 bits for the steps, sizes and intervals of
\* LearningRateCalls.
ExactExponent(step, size, interval) ==
    size * (step \div interval) + (size * (step % interval)) \div interval

\* C22 as stated: the learning rate at global step s is base * decay ^ k
\* with the integer exponent k = floor(s * batch_size / decay_interval).
C22_Claim ==
    (call.fn = "learning_rate" /\ result.status = "returned")
    => /\ result.base = call.base
       /\ result.decay = call.decay
       /\ result.exponent =
             [num |-> ExactExponent(call.global_step, call.batch_size,
                                    call.decay_examples),
              den |-> 1]

\* The role or the index of the task of p is unset.
RoleOrIndexUnset(p) == task[p].type = NoneVal \/ task[p].index = NoIndex

\* A run whose server start failed has attempted no deletion and written
\* nothing, and its task is one whose role or index is unset.
FailedStartWroteNothing ==
    \A p \in Procs :
        CoordinatorFailed(p)
        => /\ RoleOrIndexUnset(p)
           /\ Count(p, "remove_training_directory") = 0
           /\ written[p] = {}

\* No step of a process of a cluster whose role or index is unset changes
\* the training directory.
UnsetTaskKeepsDirectory ==
    \A p \in Procs :
        (cluster /\ RoleOrIndexUnset(p) /\ pc'[p] # pc[p])
        => train_dir' = train_dir

\* C23: in a Trainer.run where the server start fails because the role or
\* the index of the task is unset, that run has neither deleted nor modified
\* the training directory, also when start_new_model is true: no step of
\* such a task changes the directory, and at the failure the run has
\* attempted no deletion and written nothing.
C23_DirectoryUntouchedOnConfigError ==
    []FailedStartWroteNothing /\ [][UnsetTaskKeepsDirectory]_vars

\* A task without a role, started with start_new_model, failed to start its
\* server and the checkpoint it found is still in the directory.
C23_Witness ==
    \E p \in Procs :
        /\ CoordinatorFailed(p)
        /\ task[p].type = NoneVal
        /\ start_new_model[p]
        /\ pc[p] = "failed"
        /\ train_dir.checkpoint
        /\ train_dir.meta

\* C24 as stated: in a cluster whose sole master and worker share the
\* training directory and were started with the same start_new_model flag,
\* once both have taken the resume decision they have taken the same one,
\* FRESH (None) or RECOVER (a snapshot filename), however their startups
\* interleave with the master's deletion and checkpoint writes.
C24_Claim ==
    \A p, q \in Procs :
        (/\ cluster
         /\ SoleMaster(p)
         /\ task[q].type = "worker"
         /\ start_new_model[p] = start_new_model[q]
         /\ meta_filename[p] # "unset"
         /\ meta_filename[q] # "unset")
        => (meta_filename[p] = NoneVal <=> meta_filename[q] = NoneVal)

====
